---- MODULE Spec2Model ----
(***************************************************************************)
(* A model of babel.localedata: the locale-data cache and loader (load),   *)
(* the merge engine (merged, merge, MergedDictView), Alias.resolve, the    *)
(* copy-on-write MutableDictView and the alias-resolving LocaleDataDict.   *)
(*                                                                         *)
(* Python objects live in a heap (a sequence of objects; a reference is an *)
(* index), so that object identity, sharing and in-place mutation are      *)
(* those of the program.  Every operation on the heap returns a record     *)
(* [h |-> the heap after it, v |-> the value returned or the exception     *)
(* raised].                                                                *)
(***************************************************************************)
EXTENDS Integers, Sequences, FiniteSets, TLC

(***************************************************************************)
(* Values.  Every value is a record whose field "kind" tells its Python    *)
(* type: None, a scalar (a string), an Alias (its keys), a tuple           *)
(* (alias, others), a reference to a mapping object of the heap, or a      *)
(* raised exception.                                                       *)
(***************************************************************************)
None == [kind |-> "none"]

Str(s) == [kind |-> "str", val |-> s]

Alias(keys) == [kind |-> "alias", keys |-> keys]

Tuple(alias, others) == [kind |-> "tuple", alias |-> alias, others |-> others]

Ref(id) == [kind |-> "ref", id |-> id]

Raise(e) == [kind |-> "error", err |-> e]

IsError(v) == v.kind = "error"

IsRef(v) == v.kind = "ref"

(***************************************************************************)
(* Heap objects: the four mapping types of the module.                     *)
(***************************************************************************)
EmptyItems == [k \in {} |-> None]

Dict(items) == [kind |-> "dict", items |-> items]

MergedDictView(left, right) == [kind |-> "merged", left |-> left, right |-> right]

\* _overrides and _deleted_keys start as None; None and the empty
\* container are told apart by no method, and are modelled as empty.
MutableDictView(base) ==
    [kind |-> "mutable", base |-> base, overrides |-> EmptyItems, deleted |-> {}]

LocaleDataDict(data, base) == [kind |-> "ldd", data |-> data, base |-> base]

Ret(h, v) == [h |-> h, v |-> v]

\* A new object: its reference is the next index of the heap.
Alloc(h, obj) == Ret(Append(h, obj), Ref(Len(h) + 1))

\* f with f[k] set to v (k added to the domain when it is new).
Put(f, k, v) == [x \in DOMAIN f \cup {k} |-> IF x = k THEN v ELSE f[x]]

Drop(f, k) == [x \in DOMAIN f \ {k} |-> f[x]]

COPY_THRESHOLD == 7

is_mapping(h, v) ==
    IsRef(v) /\ h[v.id].kind \in {"ldd", "dict", "merged", "mutable"}

is_mutable_mapping(h, v) ==
    IsRef(v) /\ h[v.id].kind \in {"dict", "ldd", "mutable"}

(***************************************************************************)
(* The operations below call one another recursively (a lookup in a merged *)
(* view merges, a merge looks up, a lookup in a LocaleDataDict resolves an *)
(* alias, which looks up).  Every such call goes through Invoke, which    *)
(* dispatches on the operation's name; the operations themselves follow.   *)
(***************************************************************************)
RECURSIVE Invoke(_, _)

call_getitem(h, n, T, id, key) == Invoke("getitem", <<h, n, T, id, key>>)

call_items(h, n, T, id, todo, acc) == Invoke("items_from", <<h, n, T, id, todo, acc>>)

call_merged(h, n, T, dict1, dict2, require_mutable) ==
    Invoke("merged", <<h, n, T, dict1, dict2, require_mutable>>)

call_merge(h, n, T, dict1, dict2) == Invoke("merge", <<h, n, T, dict1, dict2>>)

call_merge_loop(h, n, T, dict1, its, todo) ==
    Invoke("merge_loop", <<h, n, T, dict1, its, todo>>)

call_walk(h, n, T, data, keys) == Invoke("walk", <<h, n, T, data, keys>>)

call_resolve(h, n, T, keys, base) == Invoke("resolve", <<h, n, T, keys, base>>)

call_copy(h, n, T, id) == Invoke("copy", <<h, n, T, id>>)

call_resolved_value(h, n, T, o, val) == Invoke("resolved_value", <<h, n, T, o, val>>)

RECURSIVE KeysOf(_, _)
RECURSIVE SetItem(_, _, _, _)
RECURSIVE DelItem(_, _, _)

(***************************************************************************)
(* keys() / __iter__ / __len__ of a mapping object.                        *)
(***************************************************************************)
KeysOf(h, id) ==
    LET o == h[id] IN
    CASE o.kind = "dict" -> DOMAIN o.items
      [] o.kind = "merged" -> KeysOf(h, o.left) \cup KeysOf(h, o.right)
      [] o.kind = "mutable" ->
            (KeysOf(h, o.base) \cup DOMAIN o.overrides) \ o.deleted
      [] o.kind = "ldd" -> KeysOf(h, o.data)

LenOf(h, id) == Cardinality(KeysOf(h, id))

\* mapping.get(key): dict.get for a dict; Mapping.get for the other
\* three, which is self[key] with KeyError (and only KeyError) turned
\* into None.
Get(h, n, T, id, key) ==
    LET r == call_getitem(h, n, T, id, key) IN
    IF r.v = Raise("KeyError") THEN Ret(r.h, None) ELSE r

\* MergedDictView.__init__: a LocaleDataDict on either side is unwrapped.
NewMergedDictView(h, left, right) ==
    LET l == IF h[left].kind = "ldd" THEN h[left].data ELSE left
        r == IF h[right].kind = "ldd" THEN h[right].data ELSE right
    IN  Alloc(h, MergedDictView(l, r))

\* LocaleDataDict.__init__(data, base): data that is not mutable is
\* wrapped in a MutableDictView; base defaults to (the wrapped) data.
NewLocaleDataDict(h, data, base) ==
    LET w == IF is_mutable_mapping(h, Ref(data))
                THEN Ret(h, Ref(data))
                ELSE Alloc(h, MutableDictView(data))
    IN  Alloc(w.h, LocaleDataDict(w.v.id, IF base = 0 THEN w.v.id ELSE base))

\* MergedDictView.__getitem__
MergedGetItem(h, n, T, o, key) ==
    LET rr == Get(h, n, T, o.right, key) IN
    IF IsError(rr.v) THEN rr
    ELSE IF rr.v # None
    THEN LET rl == Get(rr.h, n, T, o.left, key) IN
         IF IsError(rl.v) THEN rl
         ELSE IF rl.v # None
         THEN IF is_mapping(rl.h, rr.v)
              THEN CASE rl.v.kind = "alias" ->
                            Ret(rl.h, Tuple(rl.v.keys, rr.v.id))
                     [] rl.v.kind = "tuple" ->
                            LET m == call_merged(rl.h, n, T, Ref(rl.v.others), rr.v, FALSE)
                            IN  IF IsError(m.v) THEN m
                                ELSE Ret(m.h, Tuple(rl.v.alias, m.v.id))
                     [] OTHER -> call_merged(rl.h, n, T, rl.v, rr.v, FALSE)
              ELSE Ret(rl.h, rr.v)
         ELSE Ret(rl.h, rr.v)
    ELSE call_getitem(rr.h, n, T, o.left, key)

\* A __getitem__ that looks past the deleted keys.
MutableGetItem_past_deleted(h, n, T, o, key) ==
    IF key \in DOMAIN o.overrides THEN Ret(h, o.overrides[key])
    ELSE call_getitem(h, n, T, o.base, key)

\* MutableDictView.__getitem__
MutableGetItem(h, n, T, o, key) ==
    IF key \in o.deleted THEN Ret(h, Raise("KeyError"))
    ELSE IF key \in DOMAIN o.overrides THEN Ret(h, o.overrides[key])
    ELSE call_getitem(h, n, T, o.base, key)

\* A __getitem__ that returns the new LocaleDataDict without storing it.
memoize_skipped(h, data, key, val) == Ret(h, None)

\* self._data[key] = val: the LocaleDataDict made for a mapping value is
\* stored for the next time.
memoize(h, data, key, val) == SetItem(h, data, key, val)

\* LocaleDataDict.__getitem__ between the read of self._data[key] and the
\* write back: the value val found there with its Alias resolved, its
\* composite merged and, when that is a mapping, wrapped in a new
\* LocaleDataDict with the base of o.
resolved_value(h, n, T, o, val) ==
    LET r1 == IF val.kind = "alias"
                 THEN call_resolve(h, n, T, val.keys, o.base)
                 ELSE Ret(h, val)
    IN  IF IsError(r1.v) THEN r1
        ELSE
        LET r2 == IF r1.v.kind = "tuple"
                     THEN LET a == call_resolve(r1.h, n, T, r1.v.alias, o.base) IN
                          IF IsError(a.v) THEN a
                          ELSE call_merged(a.h, n, T, a.v, Ref(r1.v.others), TRUE)
                     ELSE r1
        IN  IF IsError(r2.v) THEN r2
            ELSE IF is_mapping(r2.h, r2.v)
            THEN NewLocaleDataDict(r2.h, r2.v.id, o.base)
            ELSE r2

\* LocaleDataDict.__getitem__
LocaleGetItem(h, n, T, o, key) ==
    LET r0 == call_getitem(h, n, T, o.data, key) IN
    IF IsError(r0.v) THEN r0
    ELSE IF IsRef(r0.v) /\ r0.h[r0.v.id].kind = "ldd" THEN r0
    ELSE
    LET w == call_resolved_value(r0.h, n, T, o, r0.v) IN
    IF IsError(w.v) \/ ~IsRef(w.v) THEN w
    ELSE LET s == memoize(w.h, o.data, key, w.v)
         IN  IF IsError(s.v) THEN s ELSE Ret(s.h, w.v)

\* mapping[key] by the type of the object.
getitem(h, n, T, id, key) ==
    LET o == h[id] IN
    CASE o.kind = "dict" ->
            IF key \in DOMAIN o.items THEN Ret(h, o.items[key])
            ELSE Ret(h, Raise("KeyError"))
      [] o.kind = "merged" -> MergedGetItem(h, n, T, o, key)
      [] o.kind = "mutable" -> MutableGetItem(h, n, T, o, key)
      [] o.kind = "ldd" -> LocaleGetItem(h, n, T, o, key)

\* A __setitem__ that records the override and leaves the tombstone.
MutableSetItem_keeping_tombstone(o, key, val) ==
    [o EXCEPT !.overrides = Put(o.overrides, key, val)]

\* MutableDictView.__setitem__: the MutableDictView o after it.
MutableSetItem(o, key, val) ==
    [o EXCEPT !.overrides = Put(o.overrides, key, val),
              !.deleted = o.deleted \ {key}]

\* MutableDictView.__delitem__: the MutableDictView o after it.
MutableDelItem(o, key) == [o EXCEPT !.deleted = o.deleted \cup {key}]

\* mapping[key] = val: dict, MutableDictView.__setitem__ and
\* LocaleDataDict.__setitem__; a MergedDictView has none.
SetItem(h, id, key, val) ==
    LET o == h[id] IN
    CASE o.kind = "dict" ->
            Ret([h EXCEPT ![id].items = Put(o.items, key, val)], None)
      [] o.kind = "mutable" ->
            Ret([h EXCEPT ![id] = MutableSetItem(o, key, val)], None)
      [] o.kind = "ldd" -> SetItem(h, o.data, key, val)
      [] o.kind = "merged" -> Ret(h, Raise("TypeError"))

\* del mapping[key]: dict, MutableDictView.__delitem__ and
\* LocaleDataDict.__delitem__.
DelItem(h, id, key) ==
    LET o == h[id] IN
    CASE o.kind = "dict" ->
            IF key \in DOMAIN o.items
            THEN Ret([h EXCEPT ![id].items = Drop(o.items, key)], None)
            ELSE Ret(h, Raise("KeyError"))
      [] o.kind = "mutable" ->
            Ret([h EXCEPT ![id] = MutableDelItem(o, key)], None)
      [] o.kind = "ldd" -> DelItem(h, o.data, key)
      [] o.kind = "merged" -> Ret(h, Raise("TypeError"))

\* The (key, value) pairs of the mapping id over the keys still to visit,
\* added to acc: dict.items(), and Mapping.items()/iteritems(), which is
\* self[key] for every key of iter(self).  The first exception ends it.
items_from(h, n, T, id, todo, acc) ==
    IF todo = {} THEN Ret(h, [kind |-> "items", items |-> acc])
    ELSE LET k == CHOOSE x \in todo : TRUE
             r == call_getitem(h, n, T, id, k)
         IN  IF IsError(r.v) THEN r
             ELSE call_items(r.h, n, T, id, todo \ {k}, Put(acc, k, r.v))

ItemsOf(h, n, T, id) == call_items(h, n, T, id, KeysOf(h, id), EmptyItems)

\* A copy() that hands back the object itself.
copy_by_reference(h, n, T, id) == Ret(h, Ref(id))

\* mapping.copy() by the type of the object.
copy(h, n, T, id) ==
    LET o == h[id] IN
    CASE o.kind = "dict" -> Alloc(h, Dict(o.items))
      [] o.kind = "merged" ->
            LET it == ItemsOf(h, n, T, id) IN
            IF IsError(it.v) THEN it ELSE Alloc(it.h, Dict(it.v.items))
      [] o.kind = "mutable" -> Alloc(h, MutableDictView(id))
      [] o.kind = "ldd" ->
            LET c == call_copy(h, n, T, o.data) IN
            IF IsError(c.v) THEN c
            ELSE NewLocaleDataDict(c.h, c.v.id, o.base)

\* merge that replaces the value of a key by the right value, mappings
\* included, as dict.update does.
merge_value_replacing(h, n, T, val1, val2) == Ret(h, val2)

\* The new value merge gives a key whose value in dict2 is val2 (not None)
\* and whose value in dict1 is val1 (None when it has none).
merge_value(h, n, T, val1, val2) ==
    IF is_mapping(h, val2)
    THEN CASE val1.kind = "alias" -> Ret(h, Tuple(val1.keys, val2.id))
           [] val1.kind = "tuple" ->
                LET m == call_merged(h, n, T, Ref(val1.others), val2, FALSE)
                IN  IF IsError(m.v) THEN m
                    ELSE Ret(m.h, Tuple(val1.alias, m.v.id))
           [] val1.kind = "none" ->
                LET e == Alloc(h, Dict(EmptyItems)) IN
                call_merged(e.h, n, T, e.v, val2, FALSE)
           [] OTHER -> call_merged(h, n, T, val1, val2, FALSE)
    ELSE Ret(h, val2)

\* The loop of merge(dict1, dict2) over the items of dict2 still to visit.
merge_loop(h, n, T, dict1, items, todo) ==
    IF todo = {} THEN Ret(h, None)
    ELSE
    LET key == CHOOSE x \in todo : TRUE
        val2 == items[key]
    IN  IF val2 = None
        THEN call_merge_loop(h, n, T, dict1, items, todo \ {key})
        ELSE
        LET g == Get(h, n, T, dict1, key) IN
        IF IsError(g.v) THEN g
        ELSE
        LET r == merge_value(g.h, n, T, g.v, val2) IN
        IF IsError(r.v) THEN r
        ELSE LET s == SetItem(r.h, dict1, key, r.v) IN
             IF IsError(s.v) THEN s
             ELSE call_merge_loop(s.h, n, T, dict1, items, todo \ {key})

\* merge(dict1, dict2): dict2 merged into dict1 in place.
merge(h, n, T, dict1, dict2) ==
    LET it == ItemsOf(h, n, T, dict2) IN
    IF IsError(it.v) THEN it
    ELSE call_merge_loop(it.h, n, T, dict1, it.v.items, DOMAIN it.v.items)

\* merged(dict1, dict2, require_mutable) with the threshold T (the module
\* global COPY_THRESHOLD).  len() of a value that is no mapping raises.
merged(h, n, T, dict1, dict2, require_mutable) ==
    IF ~IsRef(dict1) \/ ~IsRef(dict2) THEN Ret(h, Raise("TypeError"))
    ELSE
    LET len1 == LenOf(h, dict1.id)
        len2 == LenOf(h, dict2.id)
        wrap(r) == IF ~IsError(r.v) /\ require_mutable
                      /\ ~is_mutable_mapping(r.h, r.v)
                   THEN Alloc(r.h, MutableDictView(r.v.id))
                   ELSE r
    IN  IF len1 = 0 /\ len2 = 0 THEN Alloc(h, Dict(EmptyItems))
        ELSE IF len2 = 0 THEN wrap(Ret(h, dict1))
        ELSE IF len1 = 0 THEN wrap(Ret(h, dict2))
        ELSE IF len1 + len2 < T
        THEN LET c == call_copy(h, n, T, dict1.id) IN
             IF IsError(c.v) THEN c
             ELSE LET m == call_merge(c.h, n, T, c.v.id, dict2.id) IN
                  IF IsError(m.v) THEN m ELSE wrap(Ret(m.h, c.v))
        ELSE wrap(NewMergedDictView(h, dict1.id, dict2.id))

\* The loop "for key in self.keys: data = data[key]" of Alias.resolve.
\* Subscripting a value that is no mapping raises TypeError.
walk(h, n, T, data, keys) ==
    IF keys = <<>> THEN Ret(h, data)
    ELSE IF ~IsRef(data) THEN Ret(h, Raise("TypeError"))
    ELSE LET r == call_getitem(h, n, T, data.id, Head(keys)) IN
         IF IsError(r.v) THEN r ELSE call_walk(r.h, n, T, r.v, Tail(keys))

\* Alias.resolve(data).  n is the depth of nested resolve calls the
\* interpreter still allows; past it the interpreter raises
\* "maximum recursion depth exceeded".
resolve(h, n, T, keys, base) ==
    IF n = 0 THEN Ret(h, Raise("RecursionError"))
    ELSE LET w == call_walk(h, n - 1, T, Ref(base), keys) IN
         IF IsError(w.v) THEN w
         ELSE CASE w.v.kind = "alias" -> call_resolve(w.h, n - 1, T, w.v.keys, base)
                [] w.v.kind = "tuple" -> call_resolve(w.h, n - 1, T, w.v.alias, base)
                [] OTHER -> w

Invoke(op, a) ==
    CASE op = "getitem" -> getitem(a[1], a[2], a[3], a[4], a[5])
      [] op = "items_from" -> items_from(a[1], a[2], a[3], a[4], a[5], a[6])
      [] op = "merged" -> merged(a[1], a[2], a[3], a[4], a[5], a[6])
      [] op = "merge" -> merge(a[1], a[2], a[3], a[4], a[5])
      [] op = "merge_loop" -> merge_loop(a[1], a[2], a[3], a[4], a[5], a[6])
      [] op = "walk" -> walk(a[1], a[2], a[3], a[4], a[5])
      [] op = "resolve" -> resolve(a[1], a[2], a[3], a[4], a[5])
      [] op = "copy" -> copy(a[1], a[2], a[3], a[4])
      [] op = "resolved_value" -> resolved_value(a[1], a[2], a[3], a[4], a[5])

GetItem(h, n, T, id, key) == call_getitem(h, n, T, id, key)

(***************************************************************************)
(* Record documents as the storage holds them (pickled): a tree whose      *)
(* nodes are scalars, None, Aliases, nested mappings [kind |-> "map"] and  *)
(* composites [kind |-> "composite"].  pickle.load builds fresh objects.   *)
(***************************************************************************)
Map(tree) == [kind |-> "map", tree |-> tree]

Composite(path, over) == [kind |-> "composite", path |-> path, over |-> over]

RECURSIVE Unpickle(_, _)
RECURSIVE UnpickleItems(_, _, _, _)

UnpickleItems(h, tree, todo, acc) ==
    IF todo = {} THEN Ret(h, acc)
    ELSE LET k == CHOOSE x \in todo : TRUE
             r == Unpickle(h, tree[k])
         IN  UnpickleItems(r.h, tree, todo \ {k}, Put(acc, k, r.v))

Unpickle(h, t) ==
    CASE t.kind = "map" ->
            LET r == UnpickleItems(h, t.tree, DOMAIN t.tree, EmptyItems)
            IN  Alloc(r.h, Dict(r.v))
      [] t.kind = "composite" ->
            LET r == Unpickle(h, t.over) IN Ret(r.h, Tuple(t.path, r.v.id))
      [] OTHER -> Ret(h, t)

\* What a reader of the value v sees: the document obtained by reading
\* every key of every mapping reachable from it with mapping[key].
RECURSIVE View(_, _, _, _)
View(h, n, T, v) ==
    CASE v.kind = "ref" ->
            Map([k \in KeysOf(h, v.id) |->
                    LET r == GetItem(h, n, T, v.id, k) IN View(r.h, n, T, r.v)])
      [] v.kind = "tuple" ->
            Composite(v.alias, View(h, n, T, Ref(v.others)))
      [] OTHER -> v

(***************************************************************************)
(* The loader.  A locale identifier is the sequence of its "_"-delimited    *)
(* segments (name.split('_')): "en_US" is <<"en", "US">>.                   *)
(***************************************************************************)
root == <<"root">>

en == <<"en">>

en_US == <<"en", "US">>

Ids == {root, en, en_US}

Threads == {1, 2}

\* The load calls of one run, over all threads.
MaxCalls == 3

\* The depth of nested calls the interpreter allows.
RecursionLimit == 6

Absent == [kind |-> "absent"]

NoExceptions == [i \in {} |-> root]

\* The storage (one pickled document per identifier, or none) and the
\* table get_global('parent_exceptions') of one process.
World(r, e, u, x) ==
    [storage |-> [i \in Ids |-> CASE i = root -> r [] i = en -> e [] OTHER -> u],
     exceptions |-> x]

Worlds ==
    { World(Map([currencies |-> Map([USD |-> Str("US Dollar")])]),
            Map(EmptyItems), Map(EmptyItems), NoExceptions),
      World(Map(EmptyItems), Map([c |-> Str("e")]), Absent, NoExceptions),
      World(Map([a |-> Map([x |-> Str("r")]), b |-> Alias(<<"a">>)]),
            Map([a |-> Map([y |-> Str("e")]), b |-> Map([y |-> Str("e")]),
                 c |-> None]),
            Map([a |-> Map([x |-> Str("u")]), c |-> Str("u"),
                 d |-> Alias(<<"a">>)]),
            NoExceptions),
      World(Absent, Map([c |-> Str("e")]), Map([c |-> Str("u")]), NoExceptions),
      World(Map([a |-> Str("r")]), Absent, Map([c |-> Str("u")]), NoExceptions),
      World(Map([a |-> Str("r"), b |-> Str("r"), c |-> Str("r"), d |-> Str("r")]),
            Map([a |-> Str("e"), b |-> None, e |-> Str("e")]),
            Map([a |-> Str("u")]),
            (en_US :> root)),
      World(Map([a |-> Str("r")]), Map([b |-> Str("e")]), Map([c |-> Str("u")]),
            (en :> en_US)) }

VARIABLES
    heap,           \* the objects of the process
    storage,        \* identifier -> its pickled document, or Absent
    exceptions,     \* get_global('parent_exceptions')
    cache,          \* _cache: identifier -> the published value
    cache_lock,     \* _cache_lock: the RLock's owner (0: free) and count
    stack,          \* per thread, the frames of its nested load calls
    done,           \* per thread, its last finished top-level call
    calls,          \* the number of load calls started
    first,          \* identifier -> the first object a load returned for it
    computations,   \* identifier -> how often its data was computed and published
    before,         \* per thread, _cache when its top-level call took the lock
    docs,           \* the documents the arguments of merged were built from
    dict1,          \* the left argument of merged
    dict2,          \* the right argument of merged
    result1,        \* the first call of merged: its threshold and its result
    result2,        \* the second call of merged
    overlay,        \* the MutableDictView under test (0: none)
    originals,      \* the base and the copied MutableDictViews, as they read
    ops,            \* key -> the latest operations on it, oldest first
    got,            \* the last read, when nothing else followed it
    doc,            \* the document the LocaleDataDict was built over
    facade,         \* the LocaleDataDict under test (0: none)
    memo,           \* <<facade, key>> -> the first mapping a read returned
    withdrawn,      \* the keys deleted from the LocaleDataDict
    resolved,       \* the last Alias.resolve, when no read followed it
    steps,          \* the operations done on the LocaleDataDict so far
    racekey,        \* the key two threads read from the LocaleDataDict
    at,             \* per thread, where it is in LocaleDataDict.__getitem__
    orig,           \* per thread, the value it found in self._data[key]
    value           \* per thread, the value it computed, then returned

loaderVars ==
    <<storage, exceptions, cache, cache_lock, stack, done, calls, first,
      computations, before>>

mergeVars == <<docs, dict1, dict2, result1, result2>>

overlayVars == <<overlay, ops, originals>>

facadeVars == <<doc, facade, memo, withdrawn, resolved, steps>>

raceVars == <<racekey, at, orig, value>>

vars == <<heap, loaderVars, mergeVars, overlayVars, got, facadeVars, raceVars>>

NoCall == [kind |-> "nocall"]

Frame(name, mi) ==
    [name |-> name, merge_inherited |-> mi, pc |-> "acquire",
     file_data |-> None, val |-> None]

Top(t) == stack[t][Len(stack[t])]

SetTop(t, f) == [stack EXCEPT ![t][Len(stack[t])] = f]

\* bool(data) is False for None and for a mapping of length 0.
Falsy(h, v) == v = None \/ (IsRef(v) /\ LenOf(h, v.id) = 0)

\* A parent derivation that does not consult the exception table.
parent_of_by_name_only(name) ==
    IF Len(name) = 1 THEN root ELSE SubSeq(name, 1, Len(name) - 1)

\* The parent of name: the exception table's, else the name without its
\* last segment, else 'root'.
parent_of(name) ==
    IF name \in DOMAIN exceptions THEN exceptions[name]
    ELSE IF Len(name) = 1 THEN root
    ELSE SubSeq(name, 1, Len(name) - 1)

\* A load that wraps what it publishes in a LocaleDataDict rooted at itself.
inherited_as_facade(h, parent_data, file_data) ==
    LET m == call_merged(h, RecursionLimit, COPY_THRESHOLD, parent_data,
                         file_data, FALSE)
    IN  IF IsError(m.v) THEN m ELSE NewLocaleDataDict(m.h, m.v.id, 0)

\* data = merged(load(parent), file_data): the value load publishes and
\* returns is the merge result itself.
inherited(h, parent_data, file_data) ==
    call_merged(h, RecursionLimit, COPY_THRESHOLD, parent_data, file_data, FALSE)

\* _cache[name] = data.
Publish(name, data) ==
    /\ cache' = Put(cache, name, data)
    /\ computations' = [computations EXCEPT ![name] = @ + 1]

\* return data: the first object returned for name is remembered.
Return(name, v) ==
    first' = IF ~IsError(v) /\ first[name] = 0
                THEN [first EXCEPT ![name] = v.id] ELSE first

InitLoader ==
    /\ \E w \in Worlds : storage = w.storage /\ exceptions = w.exceptions
    /\ cache = [i \in {} |-> None]
    /\ cache_lock = [owner |-> 0, count |-> 0]
    /\ stack = [t \in Threads |-> <<>>]
    /\ done = [t \in Threads |-> NoCall]
    /\ calls = 0
    /\ first = [i \in Ids |-> 0]
    /\ computations = [i \in Ids |-> 0]
    /\ before = [t \in Threads |-> [i \in {} |-> None]]

IdleMerge ==
    /\ docs = <<>>
    /\ dict1 = None
    /\ dict2 = None
    /\ result1 = None
    /\ result2 = None

IdleOverlay == overlay = 0 /\ ops = <<>> /\ originals = <<>>

IdleFacade ==
    /\ doc = None
    /\ facade = 0
    /\ memo = <<>>
    /\ withdrawn = {}
    /\ resolved = None
    /\ steps = 0

IdleRace ==
    /\ racekey = ""
    /\ at = <<>>
    /\ orig = <<>>
    /\ value = <<>>

Init ==
    /\ heap = <<>>
    /\ IdleRace
    /\ InitLoader
    /\ IdleMerge
    /\ IdleOverlay
    /\ IdleFacade
    /\ got = None

\* A thread calls load(name, merge_inherited).
Call(t, name, mi) ==
    /\ stack[t] = <<>>
    /\ calls < MaxCalls
    /\ calls' = calls + 1
    /\ stack' = [stack EXCEPT ![t] = <<Frame(name, mi)>>]
    /\ UNCHANGED <<heap, storage, exceptions, cache, cache_lock, done, first,
                   computations, before, mergeVars, overlayVars, got, facadeVars, raceVars>>

\* A lock that its owner cannot take again (threading.Lock).
acquirable_when_free(lock, t) == lock.owner = 0

\* threading.RLock: acquire() does not block when the lock is free or held by
\* the calling thread.
acquirable(lock, t) == lock.owner \in {0, t}

\* _cache_lock.acquire(): the RLock is free, or held by this thread.
Acquire(t) ==
    /\ stack[t] # <<>>
    /\ Top(t).pc = "acquire"
    /\ acquirable(cache_lock, t)
    /\ cache_lock' = [owner |-> t, count |-> cache_lock.count + 1]
    /\ stack' = SetTop(t, [Top(t) EXCEPT !.pc = "body"])
    /\ before' = IF Len(stack[t]) = 1 THEN [before EXCEPT ![t] = cache] ELSE before
    /\ UNCHANGED <<heap, storage, exceptions, cache, done, calls, first,
                   computations, mergeVars, overlayVars, got, facadeVars, raceVars>>

\* From the cache lookup to the recursive call, or to the end of the try
\* block when there is none.
Body(t) ==
    /\ stack[t] # <<>>
    /\ Top(t).pc = "body"
    /\ LET f == Top(t)
           data == IF f.name \in DOMAIN cache THEN cache[f.name] ELSE None
       IN  IF ~Falsy(heap, data)
           THEN /\ stack' = SetTop(t, [f EXCEPT !.pc = "release", !.val = data])
                /\ Return(f.name, data)
                /\ UNCHANGED <<heap, cache, computations>>
           ELSE IF storage[f.name] = Absent
           THEN /\ stack' = SetTop(t, [f EXCEPT !.pc = "release",
                                                !.val = Raise("IOError")])
                /\ UNCHANGED <<heap, cache, computations, first>>
           ELSE LET r == Unpickle(heap, storage[f.name]) IN
                /\ heap' = r.h
                /\ IF f.name # root /\ f.merge_inherited
                   THEN /\ IF Len(stack[t]) >= RecursionLimit
                           THEN stack' = SetTop(t, [f EXCEPT
                                            !.pc = "release",
                                            !.val = Raise("RecursionError")])
                           ELSE stack' = [stack EXCEPT ![t] =
                                    Append(SetTop(t, [f EXCEPT !.pc = "call",
                                                      !.file_data = r.v])[t],
                                           Frame(parent_of(f.name), TRUE))]
                        /\ UNCHANGED <<cache, computations, first>>
                   ELSE /\ Publish(f.name, r.v)
                        /\ Return(f.name, r.v)
                        /\ stack' = SetTop(t, [f EXCEPT !.pc = "release",
                                                        !.val = r.v])
    /\ UNCHANGED <<storage, exceptions, cache_lock, done, calls, before,
                   mergeVars, overlayVars, got, facadeVars, raceVars>>

\* load(parent) has returned into this frame: merged(load(parent),
\* file_data), or its exception passing through.
Merge(t) ==
    /\ stack[t] # <<>>
    /\ Top(t).pc = "merge"
    /\ LET f == Top(t) IN
       IF IsError(f.val)
       THEN /\ stack' = SetTop(t, [f EXCEPT !.pc = "release"])
            /\ UNCHANGED <<heap, cache, computations, first>>
       ELSE LET m == inherited(heap, f.val, f.file_data)
            IN  /\ heap' = m.h
                /\ stack' = SetTop(t, [f EXCEPT !.pc = "release", !.val = m.v])
                /\ IF IsError(m.v)
                   THEN UNCHANGED <<cache, computations, first>>
                   ELSE Publish(f.name, m.v) /\ Return(f.name, m.v)
    /\ UNCHANGED <<storage, exceptions, cache_lock, done, calls, before,
                   mergeVars, overlayVars, got, facadeVars, raceVars>>

\* finally: _cache_lock.release(); the value or the exception goes to the
\* calling frame, or ends the thread's call.
Release(t) ==
    /\ stack[t] # <<>>
    /\ Top(t).pc = "release"
    /\ cache_lock' =
          [owner |-> IF cache_lock.count = 1 THEN 0 ELSE cache_lock.owner,
           count |-> cache_lock.count - 1]
    /\ LET f == Top(t)
           rest == SubSeq(stack[t], 1, Len(stack[t]) - 1)
       IN  IF rest = <<>>
           THEN /\ stack' = [stack EXCEPT ![t] = <<>>]
                /\ done' = [done EXCEPT ![t] =
                              [kind |-> "call", name |-> f.name,
                               merge_inherited |-> f.merge_inherited,
                               val |-> f.val]]
           ELSE /\ stack' = [stack EXCEPT ![t] =
                       [rest EXCEPT ![Len(rest)] =
                           [@ EXCEPT !.pc = "merge", !.val = f.val]]]
                /\ UNCHANGED done
    /\ UNCHANGED <<heap, storage, exceptions, cache, calls, first,
                   computations, before, mergeVars, overlayVars, got, facadeVars, raceVars>>

Next ==
    \E t \in Threads :
        \/ \E name \in Ids, mi \in BOOLEAN : Call(t, name, mi)
        \/ Acquire(t)
        \/ Body(t)
        \/ Merge(t)
        \/ Release(t)

Spec == Init /\ [][Next]_vars

\* The next step of thread t inside load.
Step(t) == Acquire(t) \/ Body(t) \/ Merge(t) \/ Release(t)

\* Step(t) is enabled: t is inside load and, where it waits for the lock,
\* the lock can be taken by it.
CanStep(t) ==
    /\ stack[t] # <<>>
    /\ Top(t).pc = "acquire" => acquirable(cache_lock, t)

\* A thread that can take its next step in load takes it: the interpreter
\* keeps scheduling every thread, and the reads of the storage complete.
\* The second conjunct is the weak fairness of Step(t), written with its
\* enabling condition CanStep(t); a step of Next that changes stack[t] from
\* a non-empty stack is a step of Step(t).
Fairness ==
    \A t \in Threads :
        /\ WF_vars(Release(t))
        /\ \/ []<>(~CanStep(t))
           \/ []<><<stack'[t] # stack[t]>>_vars

\* The worlds in which a load completes through an exception entry, fails at
\* a missing parent record, or recurses up to the interpreter's limit.
LiveWorlds ==
    {w \in Worlds : w.exceptions # NoExceptions \/ w.storage[en] = Absent}

InitLive ==
    /\ Init
    /\ \E w \in LiveWorlds : storage = w.storage /\ exceptions = w.exceptions

SpecLive == InitLive /\ [][Next]_vars /\ Fairness

(***************************************************************************)
(* The merge engine on its own: merged(dict1, dict2, require_mutable) is   *)
(* called twice on the same two arguments, each time under some value of   *)
(* the module global COPY_THRESHOLD.                                       *)
(***************************************************************************)
IdleLoader ==
    /\ storage = [i \in Ids |-> Absent]
    /\ exceptions = NoExceptions
    /\ cache = [i \in {} |-> None]
    /\ cache_lock = [owner |-> 0, count |-> 0]
    /\ stack = [t \in Threads |-> <<>>]
    /\ done = [t \in Threads |-> NoCall]
    /\ calls = 0
    /\ first = [i \in Ids |-> 0]
    /\ computations = [i \in Ids |-> 0]
    /\ before = [t \in Threads |-> [i \in {} |-> None]]

NestedMaps(s) ==
    { Map(EmptyItems), Map([x |-> Str(s)]), Map([x |-> None]),
      Map([x |-> Str(s), y |-> Str(s)]), Map([x |-> None, y |-> Str(s)]) }

LeftValues ==
    {Absent, None, Str("l"), Alias(<<"p">>)} \cup NestedMaps("l")
        \cup {Composite(<<"p">>, m) : m \in NestedMaps("l")}

RightValues == {Absent, None, Str("r"), Alias(<<"q">>)} \cup NestedMaps("r")

\* The values of the second key, left and right.
SecondValues ==
    { <<Absent, Absent>>, <<Str("l"), Absent>>, <<Absent, Str("r")>>,
      <<Absent, None>> }

\* The locale documents never hold a mapping on the right where the left
\* holds a scalar.
Compatible(lv, rv) == ~(lv.kind = "str" /\ rv.kind = "map")

\* The document with the keys of f whose value is not Absent.
Document(f) == Map([k \in {j \in DOMAIN f : f[j] # Absent} |-> f[k]])

Thresholds == 0..COPY_THRESHOLD

InitMerge ==
    \E lv \in LeftValues, rv \in RightValues, bv \in SecondValues :
        /\ Compatible(lv, rv)
        /\ docs = <<Document([a |-> lv, b |-> bv[1]]),
                    Document([a |-> rv, b |-> bv[2]])>>
        /\ LET l == Unpickle(<<>>, docs[1])
               r == Unpickle(l.h, docs[2])
           IN  heap = r.h /\ dict1 = l.v /\ dict2 = r.v
        /\ result1 = None
        /\ result2 = None
        /\ IdleLoader
        /\ IdleOverlay
        /\ IdleFacade
        /\ IdleRace
        /\ got = None

\* merged(dict1, dict2, require_mutable) with COPY_THRESHOLD = T.
CallMerged(T, require_mutable) ==
    /\ result2 = None
    /\ LET m == call_merged(heap, RecursionLimit, T, dict1, dict2, require_mutable)
           res == [kind |-> "result", T |-> T,
                   require_mutable |-> require_mutable, val |-> m.v]
       IN  /\ heap' = m.h
           /\ IF result1 = None
              THEN result1' = res /\ UNCHANGED result2
              ELSE result2' = res /\ UNCHANGED result1
    /\ UNCHANGED <<loaderVars, docs, dict1, dict2, overlayVars, got, facadeVars, raceVars>>

NextMerge == \E T \in Thresholds, rm \in BOOLEAN : CallMerged(T, rm)

SpecMerge == InitMerge /\ [][NextMerge]_vars

(***************************************************************************)
(* A MutableDictView over a plain dict, set, deleted from and read.        *)
(***************************************************************************)
OverlayKeys == {"a", "b"}

OverlayValues == {Str("v1"), Str("v2")}

BaseDocuments ==
    {Document([a |-> av, b |-> bv]) : av \in {Absent, Str("base")},
                                      bv \in {Absent, None, Str("base")}}

\* The operations on a key that are remembered.
Window == 3

\* The copies taken, each of the MutableDictView on top.
MaxCopies == 1

\* What the mapping id gives to its reader: keys(), len() and mapping[key].
Seen(h, id) ==
    [keys |-> KeysOf(h, id),
     size |-> LenOf(h, id),
     get  |-> [k \in OverlayKeys |->
                  GetItem(h, RecursionLimit, COPY_THRESHOLD, id, k).v]]

Latest(s) == IF Len(s) > Window THEN SubSeq(s, Len(s) - Window + 1, Len(s)) ELSE s

InitOverlay ==
    /\ \E d \in BaseDocuments :
          LET b == Unpickle(<<>>, d)
              o == Alloc(b.h, MutableDictView(b.v.id))
          IN  heap = o.h /\ overlay = o.v.id
    /\ originals = <<>>
    /\ ops = [k \in OverlayKeys |-> <<>>]
    /\ got = None
    /\ IdleLoader
    /\ IdleMerge
    /\ IdleFacade
    /\ IdleRace

\* overlay[key] = val
OverlaySet(key, val) ==
    /\ heap' = SetItem(heap, overlay, key, val).h
    /\ ops' = [ops EXCEPT ![key] = Latest(Append(@, [op |-> "set", val |-> val]))]
    /\ got' = None
    /\ UNCHANGED <<loaderVars, mergeVars, overlay, originals, facadeVars, raceVars>>

\* del overlay[key]
OverlayDelete(key) ==
    /\ heap' = DelItem(heap, overlay, key).h
    /\ ops' = [ops EXCEPT ![key] = Latest(Append(@, [op |-> "del", val |-> None]))]
    /\ got' = None
    /\ UNCHANGED <<loaderVars, mergeVars, overlay, originals, facadeVars, raceVars>>

\* overlay[key]
OverlayGet(key) ==
    /\ LET r == GetItem(heap, RecursionLimit, COPY_THRESHOLD, overlay, key) IN
       /\ heap' = r.h
       /\ got' = [kind |-> "got", obj |-> overlay, key |-> key, val |-> r.v]
    /\ UNCHANGED <<loaderVars, mergeVars, overlayVars, facadeVars, raceVars>>

NextOverlay ==
    \E key \in OverlayKeys :
        \/ \E val \in OverlayValues : OverlaySet(key, val)
        \/ OverlayDelete(key)
        \/ OverlayGet(key)

SpecOverlay == InitOverlay /\ [][NextOverlay]_vars

(***************************************************************************)
(* A MutableDictView over a plain dict, copied, and the copy set and       *)
(* deleted from.  originals holds the base and every MutableDictView       *)
(* copied, each as it read when the MutableDictView was put on top of it.  *)
(***************************************************************************)
InitCopy ==
    /\ \E d \in BaseDocuments :
          LET b == Unpickle(<<>>, d)
              o == Alloc(b.h, MutableDictView(b.v.id))
          IN  /\ heap = o.h /\ overlay = o.v.id
              /\ originals = <<[id |-> b.v.id, seen |-> Seen(o.h, b.v.id)]>>
    /\ ops = [k \in OverlayKeys |-> <<>>]
    /\ got = None
    /\ IdleLoader
    /\ IdleMerge
    /\ IdleFacade
    /\ IdleRace

\* overlay[key] = val, on the topmost MutableDictView
CopySet(key, val) ==
    /\ heap' = SetItem(heap, overlay, key, val).h
    /\ UNCHANGED <<loaderVars, mergeVars, overlayVars, got, facadeVars, raceVars>>

\* del overlay[key], on the topmost MutableDictView
CopyDelete(key) ==
    /\ heap' = DelItem(heap, overlay, key).h
    /\ UNCHANGED <<loaderVars, mergeVars, overlayVars, got, facadeVars, raceVars>>

\* overlay = overlay.copy(): the operations that follow are on the copy.
Copy ==
    /\ Len(originals) <= MaxCopies
    /\ LET r == call_copy(heap, RecursionLimit, COPY_THRESHOLD, overlay) IN
       /\ heap' = r.h
       /\ overlay' = r.v.id
    /\ originals' = Append(originals, [id |-> overlay, seen |-> Seen(heap, overlay)])
    /\ UNCHANGED <<loaderVars, mergeVars, ops, got, facadeVars, raceVars>>

NextCopy ==
    \/ \E key \in OverlayKeys :
          \/ \E val \in OverlayValues : CopySet(key, val)
          \/ CopyDelete(key)
    \/ Copy

SpecCopy == InitCopy /\ [][NextCopy]_vars

(***************************************************************************)
(* What the claims about load speak of.                                    *)
(***************************************************************************)
\* The value at a key path of a stored document, Absent when the path
\* leaves the document.
RECURSIVE TreeAt(_, _)
TreeAt(t, p) ==
    IF p = <<>> THEN t
    ELSE IF t.kind = "map" /\ Head(p) \in DOMAIN t.tree
         THEN TreeAt(t.tree[Head(p)], Tail(p))
         ELSE Absent

\* data[k1][k2]... read from a value of the heap.
RECURSIVE ReadPath(_, _, _)
ReadPath(h, v, p) ==
    IF p = <<>> THEN v
    ELSE IF ~IsRef(v) THEN Raise("TypeError")
    ELSE LET r == GetItem(h, RecursionLimit, COPY_THRESHOLD, v.id, Head(p))
         IN  IF IsError(r.v) THEN r.v ELSE ReadPath(r.h, r.v, Tail(p))

\* The identifiers from name up its parents, at most k of them, ending
\* at root when the chain reaches it.
RECURSIVE ChainOf(_, _)
ChainOf(name, k) ==
    IF name = root \/ k = 1 THEN <<name>>
    ELSE <<name>> \o ChainOf(parent_of(name), k - 1)

Chain(name) == ChainOf(name, Cardinality(Ids))

ChainComplete(name) ==
    LET c == Chain(name) IN
    /\ c[Len(c)] = root
    /\ \A k \in 1..Len(c) : storage[c[k]] # Absent

ChainHasAbsent(name) ==
    LET c == Chain(name) IN \E k \in 1..Len(c) : storage[c[k]] = Absent

\* The keys used anywhere in the stored documents, and the key paths of
\* one or two of them.
RECURSIVE KeysIn(_)
KeysIn(t) ==
    CASE t.kind = "map" ->
            DOMAIN t.tree \cup UNION {KeysIn(t.tree[k]) : k \in DOMAIN t.tree}
      [] t.kind = "composite" -> KeysIn(t.over)
      [] OTHER -> {}

AllKeys == UNION {KeysIn(storage[i]) : i \in Ids}

Paths == {<<k>> : k \in AllKeys} \cup (AllKeys \X AllKeys)

Prefixes(p) == {SubSeq(p, 1, k) : k \in 1..Len(p)}

\* The scalar the chain c sets at path p in its record number k or a
\* later (farther) one: the nearest record that sets a scalar at p or at a
\* prefix of p decides; Absent when none sets p or a nearer one overrides
\* a prefix of it.
RECURSIVE InheritedFrom(_, _, _)
InheritedFrom(c, k, p) ==
    IF k > Len(c) THEN Absent
    ELSE LET rec == storage[c[k]] IN
         IF TreeAt(rec, p).kind = "str" THEN TreeAt(rec, p)
         ELSE IF \E q \in Prefixes(p) : TreeAt(rec, q).kind = "str" THEN Absent
         ELSE InheritedFrom(c, k + 1, p)

\* No record of the chain holds an Alias or a composite on the path.
AliasFree(c, p) ==
    \A k \in 1..Len(c) : \A q \in Prefixes(p) :
        TreeAt(storage[c[k]], q).kind \notin {"alias", "composite"}

Finished(t) == done[t] # NoCall

Succeeded(t) == Finished(t) /\ ~IsError(done[t].val)

\* C1: every load(i) returns the same object as the first successful
\* load(i) did, whatever the record of i holds.
C1_IdentityStable ==
    \A t \in Threads : \A k \in 1..Len(stack[t]) :
        LET f == stack[t][k] IN
        (f.pc = "release" /\ ~IsError(f.val)) => f.val.id = first[f.name]

\* C2: the data of an identifier is computed (its record read, merged and
\* published) at most once in the whole run.
C2_AtMostOneComputation == \A i \in Ids : computations[i] <= 1

\* C3: when every record of the parent chain of i exists, load(i) with
\* merge_inherited=True returns data in which every key path set to a
\* scalar somewhere in the chain reads as the value of the nearest record
\* that sets it.
C3_InheritanceMerge ==
    \A t \in Threads :
        (Succeeded(t) /\ done[t].merge_inherited /\ ChainComplete(done[t].name)) =>
            \A p \in Paths :
                LET c == Chain(done[t].name)
                    want == InheritedFrom(c, 1, p)
                IN  (AliasFree(c, p) /\ want # Absent) =>
                        ReadPath(heap, done[t].val, p) = want

Returning(t, name) ==
    /\ stack[t] # <<>>
    /\ Top(t).pc = "release"
    /\ Top(t).name = name
    /\ ~IsError(Top(t).val)

C10_AbsentRecordFails ==
    \A t \in Threads :
        (Finished(t) /\ done[t].merge_inherited /\ ChainHasAbsent(done[t].name)) =>
            done[t].val = Raise("IOError")

\* A failing load leaves _cache as it was when the call took the lock,
\* and a thread outside load does not hold the lock.
FailureLeavesNoTrace ==
    \A t \in Threads :
        /\ (Len(stack[t]) = 1 /\ Top(t).pc = "release" /\ IsError(Top(t).val))
              => cache = before[t]
        /\ stack[t] = <<>> => cache_lock.owner # t

(***************************************************************************)
(* What the claims about merged speak of.                                  *)
(***************************************************************************)
\* What a reader sees of a result of merged: its keys, its size and, for
\* every key, the value or the KeyError that reading it gives.
Observed(res) ==
    [view |-> View(heap, RecursionLimit, res.T, res.val),
     size |-> IF IsRef(res.val) THEN LenOf(heap, res.val.id) ELSE 0]

\* The merge of two documents as the merge rules state it: the right
\* value wins unless it is None; a mapping on the right merges into the
\* left value, an Alias on the left becoming a composite.
RECURSIVE TreeMerge(_, _)
TreeMerge(l, r) ==
    Map([k \in DOMAIN l.tree \cup {j \in DOMAIN r.tree : r.tree[j] # None} |->
            LET lv == IF k \in DOMAIN l.tree THEN l.tree[k] ELSE None
                rv == IF k \in DOMAIN r.tree THEN r.tree[k] ELSE None
            IN  IF rv = None THEN lv
                ELSE IF rv.kind # "map" THEN rv
                ELSE CASE lv.kind = "alias" -> Composite(lv.keys, rv)
                       [] lv.kind = "composite" ->
                            Composite(lv.path, TreeMerge(lv.over, rv))
                       [] lv.kind = "none" -> rv
                       [] OTHER -> TreeMerge(lv, rv)])

\* A document as get() shows it: a key whose value is None, or whose
\* reading raises KeyError, reads like a key that is not there.
RECURSIVE Norm(_)
Norm(t) ==
    CASE t.kind = "map" ->
            Map([k \in {j \in DOMAIN t.tree :
                          t.tree[j].kind \notin {"none", "error"}} |->
                    Norm(t.tree[k])])
      [] t.kind = "composite" -> Composite(t.path, Norm(t.over))
      [] OTHER -> t

\* C5: two calls of merged on the same arguments, under whatever
\* thresholds (the copy strategy, the view strategy), give results with the
\* same keys, the same size and the same outcome of reading every key.
C5_ValueTransparency ==
    (result1 # None /\ result2 # None) => Observed(result1) = Observed(result2)

\* C6: merged is right-biased and recursive: read with get(), its result is
\* the merge of the two documents by the merge rules, under either strategy.
C6_RightBiasedRecursive ==
    \A res \in {result1, result2} \ {None} :
        /\ ~IsError(res.val)
        /\ Norm(View(heap, RecursionLimit, res.T, res.val))
              = Norm(TreeMerge(docs[1], docs[2]))

\* Both strategies have merged a right mapping into a left Alias, a left
\* composite and a left mapping, next to a key that is None on the right.
C6_Witness ==
    /\ result1 # None /\ result2 # None
    /\ heap[result1.val.id].kind = "dict"
    /\ heap[result2.val.id].kind = "merged"
    /\ "a" \in DOMAIN docs[1].tree /\ "a" \in DOMAIN docs[2].tree
    /\ docs[1].tree["a"].kind = "composite"
    /\ docs[2].tree["a"] = Map([x |-> None, y |-> Str("r")])
    /\ "b" \in DOMAIN docs[2].tree

(***************************************************************************)
(* A LocaleDataDict over one document with aliases, read, resolved against *)
(* and deleted from.                                                       *)
(***************************************************************************)
FacadeKeys == {"a", "b", "c", "x", "y"}

\* The operations done on one LocaleDataDict and the objects it returned.
MaxSteps == 4

RootDocuments ==
    {Document([a |-> av, b |-> bv, c |-> cv]) :
        av \in {Map([x |-> Str("v"), y |-> Alias(<<"c">>)]), Alias(<<"b">>), Str("s")},
        bv \in {Alias(<<"a">>), Alias(<<"c">>), Alias(<<"a", "x">>),
                Composite(<<"a">>, Map([y |-> Str("o")]))},
        cv \in {Alias(<<"a">>), Str("s"), Map([x |-> Str("w")]),
                Composite(<<"b">>, Map([x |-> Str("o")]))}}

RECURSIVE AliasesIn(_)

\* The key paths of the Alias objects of a document.
AliasesIn(t) ==
    CASE t.kind = "alias" -> {t.keys}
      [] t.kind = "composite" -> {t.path} \cup AliasesIn(t.over)
      [] t.kind = "map" -> UNION {AliasesIn(t.tree[k]) : k \in DOMAIN t.tree}
      [] OTHER -> {}

\* The key paths an Alias is resolved with: those of the document's aliases
\* and its top-level keys.
AliasKeys == AliasesIn(doc) \cup {<<k>> : k \in DOMAIN doc.tree}

\* The LocaleDataDict objects there are.
Facades == {id \in DOMAIN heap : heap[id].kind = "ldd"}

InitFacade ==
    /\ \E d \in RootDocuments :
          LET b == Unpickle(<<>>, d)
              f == NewLocaleDataDict(b.h, b.v.id, 0)
          IN  heap = f.h /\ facade = f.v.id /\ doc = d
    /\ memo = <<>>
    /\ withdrawn = {}
    /\ resolved = None
    /\ steps = 0
    /\ got = None
    /\ IdleLoader
    /\ IdleMerge
    /\ IdleOverlay
    /\ IdleRace

\* f[key] for a LocaleDataDict f: the top one or one it returned.
Read(f, key) ==
    /\ steps < MaxSteps
    /\ steps' = steps + 1
    /\ LET r == GetItem(heap, RecursionLimit, COPY_THRESHOLD, f, key) IN
       /\ heap' = r.h
       /\ got' = [kind |-> "got", obj |-> f, key |-> key, val |-> r.v]
       /\ memo' = IF is_mapping(r.h, r.v) /\ <<f, key>> \notin DOMAIN memo
                    THEN memo @@ (<<f, key>> :> r.v)
                    ELSE memo
    /\ resolved' = None
    /\ UNCHANGED <<loaderVars, mergeVars, overlayVars, doc, facade, withdrawn, raceVars>>

\* Alias(keys).resolve(facade.base)
Resolve(keys) ==
    /\ steps < MaxSteps
    /\ steps' = steps + 1
    /\ LET r == call_resolve(heap, RecursionLimit, COPY_THRESHOLD, keys, heap[facade].base) IN
       /\ heap' = r.h
       /\ resolved' = [kind |-> "resolved", keys |-> keys, val |-> r.v]
    /\ got' = None
    /\ UNCHANGED <<loaderVars, mergeVars, overlayVars, doc, facade, memo, withdrawn, raceVars>>

\* del facade[key]
Withdraw(key) ==
    /\ steps < MaxSteps
    /\ steps' = steps + 1
    /\ key \in KeysOf(heap, facade)
    /\ heap' = DelItem(heap, facade, key).h
    /\ withdrawn' = withdrawn \cup {key}
    /\ memo' = [fk \in DOMAIN memo \ {<<facade, key>>} |-> memo[fk]]
    /\ got' = None
    /\ resolved' = None
    /\ UNCHANGED <<loaderVars, mergeVars, overlayVars, doc, facade, raceVars>>

NextFacade ==
    \/ \E f \in Facades : \E key \in KeysOf(heap, f) : Read(f, key)
    \/ \E keys \in AliasKeys : Resolve(keys)
    \/ \E key \in FacadeKeys : Withdraw(key)

SpecFacade == InitFacade /\ [][NextFacade]_vars

(***************************************************************************)
(* Two threads read the same key of one LocaleDataDict for the first time. *)
(* A thread may be switched out between the read of self._data[key] and    *)
(* the write back of the LocaleDataDict it made.                           *)
(***************************************************************************)
InitRace ==
    /\ \E d \in RootDocuments :
          LET b == Unpickle(<<>>, d)
              f == NewLocaleDataDict(b.h, b.v.id, 0)
          IN  /\ heap = f.h /\ facade = f.v.id /\ doc = d
              /\ racekey \in {k \in DOMAIN d.tree :
                                 d.tree[k].kind \in {"alias", "composite"}}
    /\ at = [t \in Threads |-> "fetch"]
    /\ orig = [t \in Threads |-> None]
    /\ value = [t \in Threads |-> None]
    /\ memo = <<>>
    /\ withdrawn = {}
    /\ resolved = None
    /\ steps = 0
    /\ got = None
    /\ IdleLoader
    /\ IdleMerge
    /\ IdleOverlay

\* orig = val = self._data[key]; a LocaleDataDict found there is returned.
Fetch(t) ==
    /\ at[t] = "fetch"
    /\ LET r == GetItem(heap, RecursionLimit, COPY_THRESHOLD, heap[facade].data, racekey)
           stored == IsRef(r.v) /\ r.h[r.v.id].kind = "ldd"
       IN  /\ heap' = r.h
           /\ orig' = [orig EXCEPT ![t] = r.v]
           /\ at' = [at EXCEPT ![t] = IF IsError(r.v) \/ stored THEN "done"
                                                               ELSE "resolve"]
           /\ value' = IF IsError(r.v) \/ stored THEN [value EXCEPT ![t] = r.v]
                                                 ELSE value
    /\ UNCHANGED <<loaderVars, mergeVars, overlayVars, got, facadeVars, racekey>>

\* The alias is resolved, the composite merged, and a mapping wrapped in a
\* new LocaleDataDict; any other value is returned.
Compute(t) ==
    /\ at[t] = "resolve"
    /\ LET w == call_resolved_value(heap, RecursionLimit, COPY_THRESHOLD,
                               heap[facade], orig[t])
       IN  /\ heap' = w.h
           /\ value' = [value EXCEPT ![t] = w.v]
           /\ at' = [at EXCEPT ![t] = IF IsRef(w.v) THEN "store" ELSE "done"]
    /\ UNCHANGED <<loaderVars, mergeVars, overlayVars, got, facadeVars, racekey, orig>>

\* self._data[key] = val; return val
Store(t) ==
    /\ at[t] = "store"
    /\ heap' = memoize(heap, heap[facade].data, racekey, value[t]).h
    /\ at' = [at EXCEPT ![t] = "done"]
    /\ UNCHANGED <<loaderVars, mergeVars, overlayVars, got, facadeVars, racekey,
                   orig, value>>

NextRace == \E t \in Threads : Fetch(t) \/ Compute(t) \/ Store(t)

SpecRace == InitRace /\ [][NextRace]_vars

(***************************************************************************)
(* What the claims about the MutableDictView speak of.                     *)
(***************************************************************************)
\* What overlay[key] must give after the operations remembered in ops: the
\* last one decides, and the base when there was none.
LastWriteWins(key) ==
    IF ops[key] = <<>>
    THEN GetItem(heap, RecursionLimit, COPY_THRESHOLD, heap[overlay].base, key).v
    ELSE LET last == ops[key][Len(ops[key])] IN
         IF last.op = "del" THEN Raise("KeyError") ELSE last.val

\* C8: overlay[k] raises KeyError when the last operation on k was a
\* delete, gives v when it was overlay[k] = v, and what the base gives
\* otherwise.
C8_LastWriteWins ==
    /\ \A key \in DOMAIN ops :
          GetItem(heap, RecursionLimit, COPY_THRESHOLD, overlay, key).v
              = LastWriteWins(key)
    /\ (overlay # 0 /\ got # None) => got.val = LastWriteWins(got.key)

\* overlay[k] = v1, del overlay[k], overlay[k] = v2, and then overlay[k]
\* has been read, for a key of the base.
C8_Witness ==
    /\ overlay # 0 /\ got # None
    /\ "a" \in KeysOf(heap, heap[overlay].base)
    /\ got.key = "a"
    /\ got.val = Str("v2")
    /\ ops["a"] = <<[op |-> "set", val |-> Str("v1")],
                    [op |-> "del", val |-> None],
                    [op |-> "set", val |-> Str("v2")]>>

(***************************************************************************)
(* What the claims about Alias and the LocaleDataDict speak of.            *)
(***************************************************************************)
RECURSIVE Follow(_, _, _)

\* Where the chain of aliases that starts at the key path keys of the
\* document t leads: to an "end", or around a "cycle" when more aliases follow
\* one another than the k the document holds.
Follow(t, keys, k) ==
    LET v == TreeAt(t, keys)
        next == IF v.kind = "alias" THEN v.keys ELSE v.path
    IN  IF v.kind \notin {"alias", "composite"} THEN "end"
        ELSE IF k = 0 THEN "cycle"
        ELSE Follow(t, next, k - 1)

Cyclic(keys) == Follow(doc, keys, Cardinality(AliasKeys)) = "cycle"

RECURSIVE ChainEnd(_, _, _)

\* The key path at which the chain of aliases from keys ends.
ChainEnd(t, keys, k) ==
    LET v == TreeAt(t, keys)
        next == IF v.kind = "alias" THEN v.keys ELSE v.path
    IN  IF v.kind \notin {"alias", "composite"} \/ k = 0 THEN keys
        ELSE ChainEnd(t, next, k - 1)

\* An alias whose chain ends at a value resolves to that value, in a
\* document nothing was deleted from and no mapping was read from.
ChainResolves ==
    (resolved # None /\ ~Cyclic(resolved.keys) /\ withdrawn = {} /\ memo = <<>>)
        => LET end == TreeAt(doc, ChainEnd(doc, resolved.keys, Cardinality(AliasKeys)))
           IN  end # Absent =>
                  /\ ~IsError(resolved.val)
                  /\ View(heap, RecursionLimit, COPY_THRESHOLD, resolved.val) = end

\* C7: resolving an alias whose chain of aliases comes back to itself ends
\* with the BrokenAlias outcome, the KeyError a lookup of a missing key
\* gives; an alias chain that ends in a value resolves to that value.
C7_CycleIsBrokenAlias ==
    /\ (resolved # None /\ Cyclic(resolved.keys)) => resolved.val = Raise("KeyError")
    /\ ChainResolves

\* What the code does with such an alias: the interpreter's recursion limit
\* ends the resolution.
CycleExhaustsRecursion ==
    (resolved # None /\ Cyclic(resolved.keys) /\ withdrawn = {})
        => resolved.val = Raise("RecursionError")

\* The alias a -> b -> c -> "s" has been resolved to "s".
ChainResolved ==
    /\ resolved # None
    /\ resolved.keys = <<"a">> /\ resolved.val = Str("s")
    /\ TreeAt(doc, <<"a">>) = Alias(<<"b">>)
    /\ TreeAt(doc, <<"b">>) = Alias(<<"c">>)

\* C9: once f[k] has returned a mapping, it is a LocaleDataDict with the
\* base of f, the storage of f holds that very object under k, and f[k]
\* returns it again without resolving or allocating anything, whatever
\* has been deleted from the base since.
C9_Memoized ==
    \A fk \in DOMAIN memo :
        LET f == fk[1]
            key == fk[2]
            again == GetItem(heap, RecursionLimit, COPY_THRESHOLD, f, key)
        IN  /\ heap[memo[fk].id].kind = "ldd"
            /\ heap[memo[fk].id].base = heap[f].base
            /\ GetItem(heap, RecursionLimit, COPY_THRESHOLD, heap[f].data, key).v = memo[fk]
            /\ again = Ret(heap, memo[fk])
            /\ (got # None /\ got.obj = f /\ got.key = key) => got.val = memo[fk]

\* facade[b] was read where b is an alias of a mapping a, a was deleted,
\* and facade[b] was read again.
C9_Witness ==
    /\ facade # 0 /\ got # None
    /\ TreeAt(doc, <<"b">>) = Alias(<<"a">>)
    /\ TreeAt(doc, <<"a">>).kind = "map"
    /\ "a" \in withdrawn
    /\ <<facade, "b">> \in DOMAIN memo
    /\ got.obj = facade /\ got.key = "b" /\ got.val = memo[<<facade, "b">>]
    /\ steps = 3

(***************************************************************************)
(* What the further claims about load speak of.                            *)
(***************************************************************************)
\* C11: the identifier load calls itself for, from a call for an identifier
\* other than 'root', is the exception table's entry for it when there is
\* one, else the identifier without its last segment, else 'root'; with no
\* exceptions the parent of en_US is en and the parent of en is 'root'.
C11_ParentDerivation ==
    \A t \in Threads : \A k \in 1..(Len(stack[t]) - 1) :
        LET name == stack[t][k].name
            parent == stack[t][k + 1].name
        IN  /\ name # root
            /\ name \in DOMAIN exceptions => parent = exceptions[name]
            /\ (name \notin DOMAIN exceptions /\ Len(name) > 1)
                  => parent = SubSeq(name, 1, Len(name) - 1)
            /\ (name \notin DOMAIN exceptions /\ Len(name) = 1) => parent = root
            /\ (exceptions = NoExceptions /\ name = en_US) => parent = en
            /\ (exceptions = NoExceptions /\ name = en) => parent = root

\* load('en_US') has called load('root') because the exception table
\* says so.
C11_Witness ==
    \E t \in Threads :
        /\ Len(stack[t]) = 2
        /\ stack[t][1].name = en_US /\ stack[t][2].name = root
        /\ en_US \in DOMAIN exceptions

\* With no exceptions load('en_US') has called load('en'), which has called
\* load('root').
DefaultChainTaken ==
    \E t \in Threads :
        /\ Len(stack[t]) = 3
        /\ stack[t][1].name = en_US /\ stack[t][2].name = en
        /\ stack[t][3].name = root
        /\ exceptions = NoExceptions

(***************************************************************************)
(* What the further claims about merged speak of.                          *)
(***************************************************************************)
\* The objects the two arguments of merged are made of, before any call.
ArgumentsBefore == Unpickle(Unpickle(<<>>, docs[1]).h, docs[2]).h

\* C12: after merged(dict1, dict2, require_mutable) has returned, under
\* either strategy and either require_mutable, dict1, dict2 and every
\* mapping nested in them hold the keys and values they held before.
C12_ArgumentsUnchanged ==
    docs # <<>> =>
        /\ SubSeq(heap, 1, Len(ArgumentsBefore)) = ArgumentsBefore
        /\ View(heap, RecursionLimit, COPY_THRESHOLD, dict1) = docs[1]
        /\ View(heap, RecursionLimit, COPY_THRESHOLD, dict2) = docs[2]

\* merged has copied and merged two mappings with a nested mapping under the
\* same key, and has been called with require_mutable too.
C12_Witness ==
    /\ result1 # None /\ result2 # None
    /\ IsRef(result1.val) /\ IsRef(result2.val)
    /\ heap[result1.val.id].kind = "dict"
    /\ result1.val # dict1 /\ result1.val # dict2
    /\ result2.require_mutable
    /\ heap[result2.val.id].kind = "mutable"
    /\ "a" \in DOMAIN docs[1].tree /\ "a" \in DOMAIN docs[2].tree
    /\ docs[1].tree["a"] = Map([x |-> Str("l"), y |-> Str("l")])
    /\ docs[2].tree["a"] = Map([x |-> None, y |-> Str("r")])

(***************************************************************************)
(* What the further claims about the LocaleDataDict speak of.              *)
(***************************************************************************)
Elided == [kind |-> "elided"]

\* The mappings shown below the value that is read.
ShownDepth == 2

RECURSIVE Shown(_, _, _)

\* What reading shows of a value: a mapping key by key, down to d levels
\* of nested mappings (a LocaleDataDict over cyclic aliases nests without
\* end).
Shown(h, v, d) ==
    CASE v.kind = "ref" ->
            IF d = 0 THEN Elided
            ELSE Map([k \in KeysOf(h, v.id) |->
                        LET r == GetItem(h, RecursionLimit, COPY_THRESHOLD, v.id, k)
                        IN  Shown(r.h, r.v, d - 1)])
      [] v.kind = "tuple" -> Composite(v.alias, Shown(h, Ref(v.others), d))
      [] OTHER -> v

\* What f[key] shows in the heap h.
ShownAt(h, f, key) ==
    LET r == GetItem(h, RecursionLimit, COPY_THRESHOLD, f, key)
    IN  Shown(r.h, r.v, ShownDepth)

\* What the storage of f holds under key in the heap h.
Slot(h, f, key) == GetItem(h, RecursionLimit, COPY_THRESHOLD, h[f].data, key).v

\* The step is a read f[key] of a LocaleDataDict.
ReadStep == steps' = steps + 1 /\ got' # None

\* A read leaves the keys and the size of the LocaleDataDict as they were.
ReadKeepsKeys ==
    ReadStep =>
        /\ KeysOf(heap', got'.obj) = KeysOf(heap, got'.obj)
        /\ LenOf(heap', got'.obj) = LenOf(heap, got'.obj)

\* A read changes the storage at most under the key read, where an Alias, a
\* composite or a raw mapping gives way to the LocaleDataDict returned.
ReadKeepsStorage ==
    ReadStep =>
        LET f == got'.obj
            old == Slot(heap, f, got'.key)
            new == Slot(heap', f, got'.key)
        IN  /\ \A j \in KeysOf(heap, f) \ {got'.key} : Slot(heap', f, j) = Slot(heap, f, j)
            /\ \/ new = old
               \/ /\ old.kind \in {"alias", "tuple", "ref"}
                  /\ new = got'.val
                  /\ heap'[new.id].kind = "ldd"

\* A read leaves what every other key of the LocaleDataDict reads as.
ReadKeepsOtherValues ==
    ReadStep =>
        \A j \in KeysOf(heap, got'.obj) \ {got'.key} :
            ShownAt(heap', got'.obj, j) = ShownAt(heap, got'.obj, j)

\* C13: f[k] changes nothing in the storage of f but the value under k,
\* replaced by the LocaleDataDict it resolves to; it adds and removes no
\* key and leaves what every other key reads as.
C13_ReadsOnlyMemoize ==
    [][ReadKeepsKeys /\ ReadKeepsStorage /\ ReadKeepsOtherValues]_vars

\* The parts of it that concern the keys and the storage alone.
KeysKept == [][ReadKeepsKeys]_vars

StorageKept == [][ReadKeepsStorage]_vars

\* The objects there were when the LocaleDataDict had just been built over
\* its document.
HeapBefore ==
    LET b == Unpickle(<<>>, doc) IN NewLocaleDataDict(b.h, b.v.id, 0).h

\* C14: when two threads have read facade[key] for the first time, for a key
\* that holds an Alias or a composite, in whatever interleaving, both have
\* the same error or values that read alike, the storage holds under the key
\* a LocaleDataDict that reads like them, and every other key of the storage
\* holds what it held.
C14_RaceIsBenign ==
    (racekey # "" /\ \A t \in Threads : at[t] = "done") =>
        /\ Shown(heap, value[1], ShownDepth) = Shown(heap, value[2], ShownDepth)
        /\ IsError(value[1]) <=> IsError(value[2])
        /\ is_mapping(heap, value[1]) =>
              LET slot == Slot(heap, facade, racekey) IN
              /\ slot \in {value[1], value[2]}
              /\ heap[slot.id].kind = "ldd"
              /\ Shown(heap, slot, ShownDepth) = Shown(heap, value[1], ShownDepth)
        /\ \A j \in DOMAIN doc.tree \ {racekey} :
              Slot(heap, facade, j) = Slot(HeapBefore, facade, j)
        /\ KeysOf(heap, facade) = DOMAIN doc.tree

\* Both threads found the composite in the storage, each made its own
\* LocaleDataDict, and both wrote it back.
C14_Witness ==
    /\ racekey # ""
    /\ \A t \in Threads : at[t] = "done" /\ orig[t].kind = "tuple" /\ IsRef(value[t])
    /\ value[1] # value[2]

\* What a resolved value reads as: a mapping wrapped as LocaleDataDict
\* wraps it, key by key, one level deep.
ReadAs(h, v) ==
    IF IsRef(v) /\ h[v.id].kind # "ldd"
    THEN LET w == NewLocaleDataDict(h, v.id, h[facade].base) IN Shown(w.h, w.v, 1)
    ELSE Shown(h, v, 1)

\* C15: Alias(keys).resolve(base) gives the same value, or the same error,
\* whatever keys of the LocaleDataDict over base have been read before: it
\* gives what it gives when none has been read.
C15_ResolutionDeterministic ==
    (resolved # None /\ withdrawn = {}) =>
        LET fresh == call_resolve(HeapBefore, RecursionLimit, COPY_THRESHOLD,
                                  resolved.keys, HeapBefore[facade].base)
        IN  ReadAs(fresh.h, fresh.v) = ReadAs(heap, resolved.val)

\* The same, for an alias whose chain meets no composite.
DeterministicWithoutComposite ==
    (\A k \in DOMAIN doc.tree : doc.tree[k].kind # "composite")
        => C15_ResolutionDeterministic

\* Taking the parent again and again from name comes to 'root'.
ReachesRoot(name) == LET c == Chain(name) IN c[Len(c)] = root

\* C16: whatever the exception table, the calls load makes for the parent,
\* the parent's parent and so on come to 'root' within as many calls as there
\* are identifiers, and every call of load ends with data or with IOError.
C16_LoadTerminates ==
    \A t \in Threads :
        /\ Len(stack[t]) <= Cardinality(Ids)
        /\ Finished(t) => (IsRef(done[t].val) \/ done[t].val = Raise("IOError"))

\* The same, for the identifiers from which the parents come to 'root'.
TerminatesWhenRootIsReached ==
    \A t \in Threads :
        /\ (stack[t] # <<>> /\ ReachesRoot(stack[t][1].name))
              => Len(stack[t]) <= Cardinality(Ids)
        /\ (Finished(t) /\ ReachesRoot(done[t].name))
              => (IsRef(done[t].val) \/ done[t].val = Raise("IOError"))

\* The calls of load of thread t that hold the lock: those past acquire().
Holding(t) == {k \in 1..Len(stack[t]) : stack[t][k].pc # "acquire"}

\* The lock is held as many times as its owner has calls of load past
\* acquire() and not yet past release(); no other thread is past acquire();
\* a thread outside load holds nothing.
LockBalanced ==
    /\ cache_lock.count = 0 <=> cache_lock.owner = 0
    /\ \A t \in Threads :
          IF cache_lock.owner = t
          THEN cache_lock.count = Cardinality(Holding(t))
          ELSE Holding(t) = {}

\* C17: a load that loads its ancestors takes the lock its thread holds
\* again without blocking; every load releases the lock as often as it took
\* it, whether it ends with data or with an exception; and every load of
\* every thread returns.
C17_LockReleasedNoDeadlock ==
    /\ []LockBalanced
    /\ \A t \in Threads : (stack[t] # <<>>) ~> (stack[t] = <<>>)

\* A thread has taken the lock a second time for its parent while the
\* other thread waits for it.
C17_Witness ==
    \E t \in Threads : \E u \in Threads \ {t} :
        /\ cache_lock = [owner |-> t, count |-> 2]
        /\ stack[u] # <<>> /\ Top(u).pc = "acquire"

\* A load that ended with an exception has released the lock.
ReleasedAfterFailure ==
    \E t \in Threads :
        /\ Finished(t) /\ IsError(done[t].val)
        /\ stack[t] = <<>> /\ cache_lock.owner = 0

(***************************************************************************)
(* The result of load and the calls that came before it.                   *)
(***************************************************************************)
\* The load that thread t finished, with merge_inherited=True and every
\* record of its chain present, returned data in which every key path under
\* a top-level key its own record lacks reads as the value the nearest
\* ancestor sets there.
HasInherited(t) ==
    (Succeeded(t) /\ done[t].merge_inherited /\ ChainComplete(done[t].name)) =>
        \A p \in Paths :
            LET c == Chain(done[t].name)
                want == InheritedFrom(c, 2, p)
            IN  (/\ TreeAt(storage[c[1]], <<Head(p)>>) = Absent
                 /\ AliasFree(c, p)
                 /\ want # Absent) =>
                    ReadPath(heap, done[t].val, p) = want

\* C18: whatever load calls came before (load(i, merge_inherited=False)
\* among them), load(i, merge_inherited=True) returns data that contains
\* the values inherited from the ancestors of i.
C18_IndependentOfEarlierCalls == \A t \in Threads : HasInherited(t)

\* The first call of a run returns the inherited values.
InheritedOnFirstCall == \A t \in Threads : calls = 1 => HasInherited(t)

(***************************************************************************)
(* The MutableDictView, its base and its copies.                           *)
(***************************************************************************)
\* C19: whatever is set in and deleted from a MutableDictView, its base
\* keeps its keys and values; and whatever is set in and deleted from
\* overlay.copy(), the MutableDictView copied gives what it gave from
\* mapping[key], keys() and len() when the copy was taken.
C19_BaseNeverWritten ==
    \A i \in 1..Len(originals) :
        Seen(heap, originals[i].id) = originals[i].seen

\* A copy of a MutableDictView that holds an override and a deleted key was
\* taken, and a key was set in the copy and another deleted from it, so
\* that the copy reads differently from the MutableDictView copied.
C19_Witness ==
    /\ Len(originals) >= 2
    /\ LET o == originals[Len(originals)] IN
       /\ heap[o.id].kind = "mutable"
       /\ heap[o.id].deleted # {} /\ DOMAIN heap[o.id].overrides # {}
       /\ heap[overlay].deleted # {} /\ DOMAIN heap[overlay].overrides # {}
       /\ Seen(heap, overlay).keys # o.seen.keys
       /\ \A k \in OverlayKeys : Seen(heap, overlay).get[k] # o.seen.get[k]

(***************************************************************************)
(* The keys of a MutableDictView and its lookup.                           *)
(***************************************************************************)
\* The keys that were set in the overlay, and those whose last operation
\* was a delete.
OverrideKeys ==
    {k \in OverlayKeys : \E i \in 1..Len(ops[k]) : ops[k][i].op = "set"}

DeletedKeys ==
    {k \in OverlayKeys : ops[k] # <<>> /\ ops[k][Len(ops[k])].op = "del"}

ExpectedKeys ==
    (KeysOf(heap, heap[overlay].base) \cup OverrideKeys) \ DeletedKeys

\* C20: after any sets and deletes on a MutableDictView over a plain dict,
\* keys() is (the keys of the base and the keys set) less the keys deleted,
\* len() is the number of them, and a key is one of keys() exactly when
\* overlay[key] gives a value.
C20_KeysConsistentWithLookup ==
    overlay # 0 =>
        /\ KeysOf(heap, overlay) = ExpectedKeys
        /\ LenOf(heap, overlay) = Cardinality(ExpectedKeys)
        /\ \A k \in OverlayKeys :
              k \in KeysOf(heap, overlay)
                  <=> ~IsError(GetItem(heap, RecursionLimit, COPY_THRESHOLD,
                                       overlay, k).v)

\* A key of the base was set and then deleted, and a key the base lacks
\* was deleted and then set: keys() holds the second alone, and the read of
\* the first has raised KeyError.
C20_Witness ==
    /\ overlay # 0
    /\ KeysOf(heap, heap[overlay].base) = {"a"}
    /\ ops["a"] = <<[op |-> "set", val |-> Str("v1")], [op |-> "del", val |-> None]>>
    /\ ops["b"] = <<[op |-> "del", val |-> None], [op |-> "set", val |-> Str("v2")]>>
    /\ KeysOf(heap, overlay) = {"b"}
    /\ got # None /\ got.key = "a" /\ got.val = Raise("KeyError")
====
